---- MODULE Spec2Model ----
(***************************************************************************)
(* State-machine model of App.tsx: the camera frame loop                   *)
(* (handleCameraStream / loop), the mount and unmount effects, the          *)
(* orientation listener and the pose overlay (renderPose).                  *)
(*                                                                         *)
(* JavaScript runs every callback to completion, so one action is one      *)
(* synchronous stretch of code: from a callback's entry to its next await  *)
(* (or its end).                                                            *)
(*                                                                         *)
(* Numbers: keypoint scores are in hundredths (0.3 is 30); a screen        *)
(* coordinate is an exact fraction [num, den].                              *)
(***************************************************************************)
EXTENDS Integers, Sequences, FiniteSets, TLC

\* ---- bounds of the model ------------------------------------------------
MaxLoops == 2        \* loop instances that can exist (index set of the loops)
MaxIters == 3        \* iterations one loop may begin
MaxKeypoints == 2    \* keypoints of a pose handed to renderPose
MaxPoses == 2        \* poses in a list handed to renderPose

\* ---- program constants --------------------------------------------------
OUTPUT_TENSOR_WIDTH == 180
MIN_KEYPOINT_SCORE == 30
AUTO_RENDER == FALSE

\* rafId.current: null, the sentinel 0 the cleanup writes, or a frame id > 0
Null == -1
Cancelled == 0
\* Math.floor(1000 / 0) is +Infinity
Infinity == -1

Undefined == "undefined"
Detector == "detector"

Platforms == {"android", "ios", "web"}
CameraTypes == {"front", "back"}
Orientations == {"UNKNOWN", "PORTRAIT_UP", "PORTRAIT_DOWN", "LANDSCAPE_LEFT", "LANDSCAPE_RIGHT"}
\* Dimensions.get('window').width of two real devices (both multiples of 9
\* and 3, so the preview height is a whole number)
WindowWidths == {360, 414}
\* Date.now() differences around estimatePoses, in ms (16 does not divide
\* 1000, so the rounding of the division shows)
Latencies == {0, 1, 16, 50}

Loops == 1..MaxLoops

\* names of the MoveNet keypoints, in the order the detector returns them
KeypointNames == <<"nose", "left_eye", "right_eye", "left_ear", "right_ear", "left_shoulder", "right_shoulder">>
\* a score in hundredths
Scores == {25, 30, 31, 90}

VARIABLES
    platform,     \* Platform.OS
    windowWidth,  \* Dimensions.get('window').width
    mounted,      \* the component is mounted (the cleanup has not run)
    initPc,       \* position of the async function of the mount effect
    tfReady, cameraType, model, fps, orientation,  \* useState values
    poses,        \* useState value: <<>> while undefined, else <<the list>>
    listening,    \* the orientation listener is registered
    rafId,        \* rafId.current
    nextRafId,    \* id the next requestAnimationFrame returns
    rafQueue,     \* animation-frame callbacks requested and not yet run
    nLoops,       \* handleCameraStream invocations so far
    loopModel,    \* model captured by the closure of each loop
    loopState,    \* "unstarted" | "running" | "returned" | "threw"
    iter,         \* iterations each loop has begun
    tensors,      \* every tensor images.next() has handed out
    pendingEst,   \* tensors whose estimatePoses call has not settled
    trace,        \* calls of the latest iteration of each loop, in order
    latency,      \* latency measured by the latest successful iteration
    rendered      \* <<>>, or <<renderPose's result, the camera props>> of a render

vars == <<platform, windowWidth, mounted, initPc, tfReady, cameraType, model, fps, poses, orientation, listening, rafId, nextRafId, rafQueue, nLoops, loopModel, loopState, iter, tensors, pendingEst, trace, latency, rendered>>

envVars == <<platform, windowWidth, cameraType>>
loopVars == <<rafId, nextRafId, rafQueue, nLoops, loopModel, loopState, iter, tensors, pendingEst, trace, latency, fps, poses>>
initVars == <<initPc, tfReady, model, listening>>

\* ---- module-level constants of App.tsx ----------------------------------
IS_ANDROID == platform = "android"

IS_IOS == platform = "ios"

CAM_PREVIEW_WIDTH == windowWidth

\* W / (9/16) = 16W/9 and W / (3/4) = 4W/3
CAM_PREVIEW_HEIGHT == IF IS_IOS THEN (CAM_PREVIEW_WIDTH * 16) \div 9 ELSE (CAM_PREVIEW_WIDTH * 4) \div 3

OUTPUT_TENSOR_HEIGHT == IF IS_IOS THEN (OUTPUT_TENSOR_WIDTH * 16) \div 9 ELSE (OUTPUT_TENSOR_WIDTH * 4) \div 3

\* ---- poses ---------------------------------------------------------------
\* a keypoint is a record [name, x, y] with an optional score field
Keypoint(n, x, y, s) == [name |-> n, x |-> x, y |-> y, score |-> s]

KeypointNoScore(n, x, y) == [name |-> n, x |-> x, y |-> y]

\* results estimatePoses hands to the frame loop
DetectorOutputs ==
    { <<>>,
      << [keypoints |-> <<Keypoint("nose", 90, 160, 90), Keypoint("left_eye", 100, 150, 25)>>] >>,
      << [keypoints |-> <<Keypoint("nose", 60, 100, 31), KeypointNoScore("left_eye", 70, 90)>>] >> }

\* ---- initial state: the component has rendered once and the mount effect
\* has run up to its first await (rafId.current = null) ---------------------
LoopInit ==
    /\ rafId = Null
    /\ nextRafId = 1
    /\ rafQueue = {}
    /\ nLoops = 0
    /\ loopModel = [s \in Loops |-> Undefined]
    /\ loopState = [s \in Loops |-> "unstarted"]
    /\ iter = [s \in Loops |-> 0]
    /\ tensors = <<>>
    /\ pendingEst = {}
    /\ trace = [s \in Loops |-> <<>>]
    /\ latency = 0
    /\ fps = 0

Init ==
    /\ platform \in Platforms
    /\ windowWidth \in WindowWidths
    /\ mounted = TRUE
    /\ initPc = "getOrientation"
    /\ tfReady = FALSE
    /\ cameraType = "front"
    /\ model = Undefined
    /\ poses = <<>>
    /\ orientation = Undefined
    /\ listening = FALSE
    /\ rendered = <<>>
    /\ LoopInit

\* ---- the mount effect (async function of the first useEffect) -----------
\* getOrientationAsync resolved: setOrientation, addOrientationChangeListener,
\* then await requestCameraPermissionsAsync
InitOrientation ==
    /\ initPc = "getOrientation"
    /\ \E o \in Orientations : orientation' = o
    /\ listening' = TRUE
    /\ initPc' = "permission"
    /\ UNCHANGED <<envVars, mounted, tfReady, model, loopVars, rendered>>

\* requestCameraPermissionsAsync resolved: await tf.ready()
InitPermission ==
    /\ initPc = "permission"
    /\ initPc' = "tfReady"
    /\ UNCHANGED <<envVars, mounted, tfReady, model, orientation, listening, loopVars, rendered>>

\* tf.ready() resolved: setTfReady(true), then await createDetector
InitTfReady ==
    /\ initPc = "tfReady"
    /\ tfReady' = TRUE
    /\ initPc' = "createDetector"
    /\ UNCHANGED <<envVars, mounted, model, orientation, listening, loopVars, rendered>>

\* createDetector resolved: setModel(model)
InitModelCreated ==
    /\ initPc = "createDetector"
    /\ model' = Detector
    /\ initPc' = "done"
    /\ UNCHANGED <<envVars, mounted, tfReady, orientation, listening, loopVars, rendered>>

\* createDetector rejected: the catch logs and the function ends
InitModelFailed ==
    /\ initPc = "createDetector"
    /\ initPc' = "failed"
    /\ UNCHANGED <<envVars, mounted, tfReady, model, orientation, listening, loopVars, rendered>>

\* one of the awaits outside the try rejected: the async function ends there
InitAborted ==
    /\ initPc \in {"getOrientation", "permission", "tfReady"}
    /\ initPc' = "aborted"
    /\ UNCHANGED <<envVars, mounted, tfReady, model, orientation, listening, loopVars, rendered>>

\* the listener registered by the mount effect (never removed)
OrientationChanged ==
    /\ listening
    /\ \E o \in Orientations : orientation' = o /\ o # orientation
    /\ UNCHANGED <<envVars, mounted, initVars, loopVars, rendered>>

\* ---- the frame loop (handleCameraStream / loop) --------------------------
\* variant of the frame rate that rounds to the nearest integer (Math.round)
FpsOfRounded(L) == IF L = 0 THEN Infinity ELSE (2 * 1000 + L) \div (2 * L)

\* Math.floor(1000 / latency)
FpsOf(L) == IF L = 0 THEN Infinity ELSE 1000 \div L

\* variant of the guard that forgets the model: if (!imageTensor) throw
MissingPrerequisiteTensorOnly(m, gotTensor) == ~gotTensor

\* if (!model || !imageTensor) throw new Error('no model')
MissingPrerequisite(m, gotTensor) == m = Undefined \/ ~gotTensor

\* variant of the cancellation check that never stops the loop
CancelRequestedNever == FALSE

\* variant of the cancellation check that stops on any handle already set
CancelRequestedNonNull == rafId # Null

\* if (rafId.current === 0) return
CancelRequested == rafId = Cancelled

\* variant of the release that leaves the tensor alive
DisposeCountLeak(d) == d

\* tf.dispose([imageTensor]) applied to a tensor disposed d times so far
DisposeCount(d) == d + 1

\* if (!AUTO_RENDER) { updatePreview(); gl.endFrameEXP(); }
Present == IF ~AUTO_RENDER THEN <<"updatePreview", "endFrameEXP">> ELSE <<>>

\* a tensor handed out by images.next() to loop s
NewTensor(s, st) ==
    [loop |-> s, status |-> st, disposed |-> 0, estimated |-> (st = "pending"), afterUnmount |-> ~mounted, modelAtPull |-> model]

PendingOf(s) == {t \in pendingEst : tensors[t].loop = s}

QueuedOf(s) == {e \in rafQueue : e.loop = s}

\* variant of loop() that requests the next animation frame at its entry,
\* before awaiting estimatePoses
LoopBeginEager(s, m, gotTensor, q) ==
    /\ iter[s] < MaxIters
    /\ iter' = [iter EXCEPT ![s] = @ + 1]
    /\ rafQueue' = q \cup {[id |-> nextRafId, loop |-> s]}
    /\ rafId' = nextRafId
    /\ nextRafId' = nextRafId + 1
    /\ IF MissingPrerequisite(m, gotTensor)
       THEN /\ tensors' = IF gotTensor THEN Append(tensors, NewTensor(s, "thrown")) ELSE tensors
            /\ pendingEst' = pendingEst
            /\ loopState' = [loopState EXCEPT ![s] = "threw"]
            /\ trace' = [trace EXCEPT ![s] = <<"requestAnimationFrame", "next", "throw">>]
       ELSE /\ tensors' = Append(tensors, NewTensor(s, "pending"))
            /\ pendingEst' = pendingEst \cup {Len(tensors) + 1}
            /\ loopState' = [loopState EXCEPT ![s] = "running"]
            /\ trace' = [trace EXCEPT ![s] = <<"requestAnimationFrame", "next", "estimatePoses">>]
    /\ UNCHANGED <<latency, fps, poses>>

\* loop() from its entry to the await of estimatePoses, for the loop s whose
\* closure captured model m; q is the animation-frame queue at entry
LoopBegin(s, m, gotTensor, q) ==
    /\ iter[s] < MaxIters
    /\ iter' = [iter EXCEPT ![s] = @ + 1]
    /\ rafQueue' = q
    /\ IF MissingPrerequisite(m, gotTensor)
       THEN /\ tensors' = IF gotTensor THEN Append(tensors, NewTensor(s, "thrown")) ELSE tensors
            /\ pendingEst' = pendingEst
            /\ loopState' = [loopState EXCEPT ![s] = "threw"]
            /\ trace' = [trace EXCEPT ![s] = <<"next", "throw">>]
       ELSE /\ tensors' = Append(tensors, NewTensor(s, "pending"))
            /\ pendingEst' = pendingEst \cup {Len(tensors) + 1}
            /\ loopState' = [loopState EXCEPT ![s] = "running"]
            /\ trace' = [trace EXCEPT ![s] = <<"next", "estimatePoses">>]
    /\ UNCHANGED <<rafId, nextRafId, latency, fps, poses>>

\* TensorCamera calls onReady once, when its GL context is created; the
\* camera is rendered only when tfReady. The closure captures the model of
\* the current render and runs loop() without awaiting it.
HandleCameraStream ==
    /\ mounted
    /\ tfReady
    /\ nLoops = 0
    /\ nLoops' = nLoops + 1
    /\ loopModel' = [loopModel EXCEPT ![nLoops + 1] = model]
    /\ \E gotTensor \in BOOLEAN : LoopBegin(nLoops + 1, model, gotTensor, rafQueue)
    /\ UNCHANGED <<envVars, mounted, initVars, orientation, rendered>>

\* an animation frame runs the callback requestAnimationFrame(loop) queued
RafFire ==
    \E e \in rafQueue :
        /\ \E gotTensor \in BOOLEAN : LoopBegin(e.loop, loopModel[e.loop], gotTensor, rafQueue \ {e})
        /\ UNCHANGED <<envVars, mounted, initVars, orientation, rendered, nLoops, loopModel>>

\* variant of the rest of loop() that presents the frame before it releases
\* the tensor
EstimateResolvedPresentFirst ==
    \E t \in pendingEst, L \in Latencies, ps \in DetectorOutputs :
        LET s == tensors[t].loop
            recorded == trace[s] \o <<"setFps", "setPoses">>
        IN  /\ pendingEst' = pendingEst \ {t}
            /\ latency' = L
            /\ fps' = FpsOf(L)
            /\ poses' = <<ps>>
            /\ tensors' = [tensors EXCEPT ![t].status = "resolved", ![t].disposed = DisposeCount(@)]
            /\ IF CancelRequested
               THEN /\ trace' = [trace EXCEPT ![s] = recorded \o <<"dispose", "return">>]
                    /\ loopState' = [loopState EXCEPT ![s] = "returned"]
                    /\ UNCHANGED <<rafId, nextRafId, rafQueue>>
               ELSE /\ trace' = [trace EXCEPT ![s] = recorded \o Present \o <<"dispose", "requestAnimationFrame">>]
                    /\ rafId' = nextRafId
                    /\ nextRafId' = nextRafId + 1
                    /\ rafQueue' = rafQueue \cup {[id |-> nextRafId, loop |-> s]}
                    /\ UNCHANGED loopState
            /\ UNCHANGED <<envVars, mounted, initVars, orientation, rendered, nLoops, loopModel, iter>>

\* estimatePoses resolved for tensor t: the rest of loop()
EstimateResolved ==
    \E t \in pendingEst, L \in Latencies, ps \in DetectorOutputs :
        LET s == tensors[t].loop
            recorded == trace[s] \o <<"setFps", "setPoses", "dispose">>
        IN  /\ pendingEst' = pendingEst \ {t}
            /\ latency' = L
            /\ fps' = FpsOf(L)
            /\ poses' = <<ps>>
            /\ tensors' = [tensors EXCEPT ![t].status = "resolved", ![t].disposed = DisposeCount(@)]
            /\ IF CancelRequested
               THEN /\ trace' = [trace EXCEPT ![s] = recorded \o <<"return">>]
                    /\ loopState' = [loopState EXCEPT ![s] = "returned"]
                    /\ UNCHANGED <<rafId, nextRafId, rafQueue>>
               ELSE /\ trace' = [trace EXCEPT ![s] = recorded \o Present \o <<"requestAnimationFrame">>]
                    /\ rafId' = nextRafId
                    /\ nextRafId' = nextRafId + 1
                    /\ rafQueue' = rafQueue \cup {[id |-> nextRafId, loop |-> s]}
                    /\ UNCHANGED loopState
            /\ UNCHANGED <<envVars, mounted, initVars, orientation, rendered, nLoops, loopModel, iter>>

\* variant of the rejection path that catches the error and carries on with
\* the next frame
EstimateRejectedRetry ==
    \E t \in pendingEst :
        LET s == tensors[t].loop
        IN  /\ pendingEst' = pendingEst \ {t}
            /\ tensors' = [tensors EXCEPT ![t].status = "rejected"]
            /\ loopState' = [loopState EXCEPT ![s] = "threw"]
            /\ trace' = [trace EXCEPT ![s] = @ \o <<"throw", "requestAnimationFrame">>]
            /\ rafId' = nextRafId
            /\ nextRafId' = nextRafId + 1
            /\ rafQueue' = rafQueue \cup {[id |-> nextRafId, loop |-> s]}
            /\ UNCHANGED <<envVars, mounted, initVars, orientation, rendered, nLoops, loopModel, iter, latency, fps, poses>>

\* estimatePoses rejected for tensor t: loop() throws at the await
EstimateRejected ==
    \E t \in pendingEst :
        LET s == tensors[t].loop
        IN  /\ pendingEst' = pendingEst \ {t}
            /\ tensors' = [tensors EXCEPT ![t].status = "rejected"]
            /\ loopState' = [loopState EXCEPT ![s] = "threw"]
            /\ trace' = [trace EXCEPT ![s] = @ \o <<"throw">>]
            /\ UNCHANGED <<envVars, mounted, initVars, orientation, rendered, nLoops, loopModel, iter, rafId, nextRafId, rafQueue, latency, fps, poses>>

\* cleanup of the second useEffect, run when the component unmounts
Unmount ==
    /\ mounted
    /\ mounted' = FALSE
    /\ IF rafId # Null /\ rafId # Cancelled
       THEN /\ rafQueue' = {e \in rafQueue : e.id # rafId}
            /\ rafId' = Cancelled
       ELSE UNCHANGED <<rafQueue, rafId>>
    /\ UNCHANGED <<envVars, initVars, orientation, rendered, nLoops, loopModel, loopState, iter, tensors, pendingEst, trace, latency, fps, poses, nextRafId>>

Next ==
    \/ InitOrientation
    \/ InitPermission
    \/ InitTfReady
    \/ InitModelCreated
    \/ InitModelFailed
    \/ InitAborted
    \/ OrientationChanged
    \/ HandleCameraStream
    \/ RafFire
    \/ EstimateResolved
    \/ EstimateRejected
    \/ Unmount

Spec == Init /\ [][Next]_vars

\* ---- the loop in a cooperative environment: the camera iterator yields a
\* tensor at every call, every estimatePoses call resolves, the component
\* stays mounted; animation frames and pending calls are eventually served --
\* handleCameraStream when images.next() yields a tensor
HandleCameraStreamTensor ==
    /\ mounted
    /\ tfReady
    /\ nLoops = 0
    /\ nLoops' = nLoops + 1
    /\ loopModel' = [loopModel EXCEPT ![nLoops + 1] = model]
    /\ LoopBegin(nLoops + 1, model, TRUE, rafQueue)
    /\ UNCHANGED <<envVars, mounted, initVars, orientation, rendered>>

\* an animation frame runs loop() and images.next() yields a tensor
RafFireTensor ==
    \E e \in rafQueue :
        /\ LoopBegin(e.loop, loopModel[e.loop], TRUE, rafQueue \ {e})
        /\ UNCHANGED <<envVars, mounted, initVars, orientation, rendered, nLoops, loopModel>>

NextProgress ==
    \/ InitOrientation
    \/ InitPermission
    \/ InitTfReady
    \/ InitModelCreated
    \/ InitModelFailed
    \/ InitAborted
    \/ OrientationChanged
    \/ HandleCameraStreamTensor
    \/ RafFireTensor
    \/ EstimateResolved

SpecProgress == Init /\ [][NextProgress]_vars /\ WF_vars(RafFireTensor) /\ WF_vars(EstimateResolved)

\* ---- the camera-ready callback delivered again ---------------------------
\* onReady={handleCameraStream} called once more (a new GL context), while
\* mounted or after the cleanup: nothing in handleCameraStream tells a second
\* call from the first, so it starts one more loop on the same rafId
HandleCameraStreamAgain ==
    /\ tfReady
    /\ nLoops >= 1
    /\ nLoops < MaxLoops
    /\ nLoops' = nLoops + 1
    /\ loopModel' = [loopModel EXCEPT ![nLoops + 1] = model]
    /\ \E gotTensor \in BOOLEAN : LoopBegin(nLoops + 1, model, gotTensor, rafQueue)
    /\ UNCHANGED <<envVars, mounted, initVars, orientation, rendered>>

NextRedelivery ==
    \/ InitOrientation
    \/ InitPermission
    \/ InitTfReady
    \/ InitModelCreated
    \/ InitModelFailed
    \/ InitAborted
    \/ OrientationChanged
    \/ HandleCameraStream
    \/ HandleCameraStreamAgain
    \/ RafFire
    \/ EstimateResolved
    \/ EstimateRejected
    \/ Unmount

SpecRedelivery == Init /\ [][NextRedelivery]_vars

TypeOK ==
    /\ rafId \in {Null, Cancelled} \cup (1..(MaxLoops * MaxIters))
    /\ \A t \in DOMAIN tensors : tensors[t].disposed \in 0..1
    /\ pendingEst \subseteq DOMAIN tensors

\* ---- the pose overlay (renderPose) ---------------------------------------
isPortrait == orientation = "PORTRAIT_UP" \/ orientation = "PORTRAIT_DOWN"

\* variant of the width that forgets the Android exception
getOutputTensorWidthNoAndroid == IF isPortrait THEN OUTPUT_TENSOR_WIDTH ELSE OUTPUT_TENSOR_HEIGHT

getOutputTensorWidth == IF isPortrait \/ IS_ANDROID THEN OUTPUT_TENSOR_WIDTH ELSE OUTPUT_TENSOR_HEIGHT

getOutputTensorHeight == IF isPortrait \/ IS_ANDROID THEN OUTPUT_TENSOR_HEIGHT ELSE OUTPUT_TENSOR_WIDTH

\* k.score ?? 0
Score(k) == IF "score" \in DOMAIN k THEN k.score ELSE 0

\* variant of the filter with an inclusive threshold
PassesFilterInclusive(k) == Score(k) >= MIN_KEYPOINT_SCORE

\* (k.score ?? 0) > MIN_KEYPOINT_SCORE
PassesFilter(k) == Score(k) > MIN_KEYPOINT_SCORE

\* `skeletonkp_${k.name}`
CircleKey(name) == "skeletonkp_" \o name

\* variant of the mirror with its operands exchanged
MirrorXSwapped(x, w) == x - w

\* getOutputTensorWidth() - k.x
MirrorX(x, w) == w - x

\* variant of the circle that mirrors on Android only
CircleNoRearFlip(k) ==
    LET flipX == IS_ANDROID
        x == IF flipX THEN MirrorX(k.x, getOutputTensorWidth) ELSE k.x
        y == k.y
    IN  [key |-> CircleKey(k.name),
         cx |-> [num |-> x * (IF isPortrait THEN CAM_PREVIEW_WIDTH ELSE CAM_PREVIEW_HEIGHT), den |-> getOutputTensorWidth],
         cy |-> [num |-> y * (IF isPortrait THEN CAM_PREVIEW_HEIGHT ELSE CAM_PREVIEW_WIDTH), den |-> getOutputTensorHeight]]

\* the <Circle> of keypoint k; cx and cy are the exact fractions num / den
Circle(k) ==
    LET flipX == IS_ANDROID \/ cameraType = "back"
        x == IF flipX THEN MirrorX(k.x, getOutputTensorWidth) ELSE k.x
        y == k.y
    IN  [key |-> CircleKey(k.name),
         cx |-> [num |-> x * (IF isPortrait THEN CAM_PREVIEW_WIDTH ELSE CAM_PREVIEW_HEIGHT), den |-> getOutputTensorWidth],
         cy |-> [num |-> y * (IF isPortrait THEN CAM_PREVIEW_HEIGHT ELSE CAM_PREVIEW_WIDTH), den |-> getOutputTensorHeight]]

\* the keypoints renderPose reads: those of poses[0]
RenderedKeypoints(ps) == ps[1].keypoints

\* renderPose(): the <Svg> with its circles, or the empty <View>
renderPose ==
    IF poses # <<>> /\ Len(poses[1]) > 0
    THEN LET kept == SelectSeq(RenderedKeypoints(poses[1]), PassesFilter)
         IN  [svg |-> TRUE, circles |-> [i \in DOMAIN kept |-> Circle(kept[i])]]
    ELSE [svg |-> FALSE, circles |-> <<>>]

\* ---- specification of renderPose over bounded inputs ---------------------
\* the ends and the middle of the portrait output width
Xs == {0, 90, 180}

Ys == {160}

\* the keypoints the detector can report at position i of a pose
KeypointInputs(i) ==
    {Keypoint(KeypointNames[i], x, y, s) : x \in Xs, y \in Ys, s \in Scores}
        \cup {KeypointNoScore(KeypointNames[i], x, y) : x \in Xs, y \in Ys}

RECURSIVE KeypointLists(_)
KeypointLists(n) ==
    IF n = 0 THEN {<<>>}
    ELSE {Append(l, k) : l \in KeypointLists(n - 1), k \in KeypointInputs(n)}

PoseInputs == {[keypoints |-> l] : l \in UNION {KeypointLists(n) : n \in 0..MaxKeypoints}}

\* poses ranked after the first
OtherPoses ==
    { [keypoints |-> <<Keypoint("nose", 90, 160, 90), Keypoint("left_eye", 30, 160, 90)>>] }

RECURSIVE PoseLists(_)
PoseLists(n) ==
    IF n = 0 THEN {<<>>}
    ELSE IF n = 1 THEN {<<p>> : p \in PoseInputs}
    ELSE {Append(l, p) : l \in PoseLists(n - 1), p \in OtherPoses}

\* values of the poses state: undefined, or a list of up to MaxPoses poses
PosesInputs == {<<>>} \cup {<<l>> : l \in UNION {PoseLists(n) : n \in 0..MaxPoses}}

InitRender ==
    /\ platform \in Platforms
    /\ windowWidth \in WindowWidths
    /\ cameraType \in CameraTypes
    /\ orientation \in Orientations \cup {Undefined}
    /\ poses \in PosesInputs
    /\ mounted = TRUE
    /\ initPc = "done"
    /\ tfReady = TRUE
    /\ model = Detector
    /\ listening = TRUE
    /\ rendered = <<>>
    /\ LoopInit

\* what the render hands to the container and to TensorCamera: the
\* container style and the resize props
renderCamera ==
    [portrait |-> isPortrait, resizeWidth |-> getOutputTensorWidth, resizeHeight |-> getOutputTensorHeight]

\* one render of the component: renderPose(), the container and the camera
RenderPose ==
    /\ rendered = <<>>
    /\ rendered' = <<renderPose, renderCamera>>
    /\ UNCHANGED <<envVars, mounted, initVars, orientation, loopVars>>

NextRender == RenderPose

SpecRender == InitRender /\ [][NextRender]_vars

\* ---- properties of the frame loop ----------------------------------------
Tensors == DOMAIN tensors

\* C1: every tensor handed to an iteration that has ended (returned or
\* threw) has been disposed exactly once, on the error paths too.
C1_ReleasedOnEveryExit ==
    \A t \in Tensors : tensors[t].status # "pending" => tensors[t].disposed = 1

\* C2: no estimatePoses call begins after the unmount cleanup has run.
C2_NoEstimateAfterUnmount ==
    \A t \in Tensors : tensors[t].estimated => ~tensors[t].afterUnmount

\* C3: no iteration pulls a tensor from the camera iterator while the model
\* is unset.
C3_NoPullBeforeModel ==
    \A t \in Tensors : tensors[t].modelAtPull # Undefined

\* C4: estimatePoses is invoked only for a loop whose captured model is set;
\* once createDetector has failed the model stays unset and estimatePoses is
\* never invoked.
C4_EstimateOnlyWithModel ==
    /\ \A t \in Tensors : tensors[t].estimated => loopModel[tensors[t].loop] = Detector
    /\ initPc = "failed" => (model = Undefined /\ \A t \in Tensors : ~tensors[t].estimated)

\* createDetector failed and the camera stream still started a loop, which
\* pulled a tensor and threw
C4_Witness ==
    /\ initPc = "failed"
    /\ loopState[1] = "threw"
    /\ Len(tensors) = 1

\* C5: at most one tensor is acquired and not yet disposed.
C5_AtMostOneInFlight ==
    Cardinality({t \in Tensors : tensors[t].disposed = 0}) <= 1

\* a tensor is in flight after an earlier one was released
C5_Witness ==
    \E t \in pendingEst : \E u \in Tensors : u < t /\ tensors[u].disposed = 1

\* C6: within one loop at most one estimatePoses call is pending, no
\* animation frame of the loop is queued while one is pending, and while a
\* call stays pending the loop begins no iteration (pulls no tensor) and
\* schedules none.
C6_SerialIterations ==
    /\ [](\A s \in Loops : Cardinality(PendingOf(s)) <= 1 /\ (PendingOf(s) # {} => QueuedOf(s) = {}))
    /\ [][\A s \in Loops :
            (PendingOf(s) # {} /\ PendingOf(s) \subseteq pendingEst')
                => (iter'[s] = iter[s] /\ {e \in rafQueue' : e.loop = s} = {})]_vars

\* the second iteration of a loop is estimating after the first one finished
C6_Witness ==
    /\ iter[1] = 2
    /\ PendingOf(1) = {2}
    /\ tensors[1].status = "resolved"

\* C7: after the unmount cleanup has run, rafId.current is the sentinel 0.
C7_CancelledAfterUnmount ==
    ~mounted => rafId = Cancelled

\* C8: when estimatePoses returns to an iteration after rafId.current became
\* 0, the iteration records fps and poses and disposes its tensor, then
\* returns without presenting and without requesting an animation frame;
\* a loop that returned has nothing pending and nothing queued.
C8_CooperativeCancel ==
    /\ [][\A t \in pendingEst :
            (rafId = Cancelled /\ tensors'[t].status = "resolved")
                => /\ trace'[tensors[t].loop] = <<"next", "estimatePoses", "setFps", "setPoses", "dispose", "return">>
                   /\ tensors'[t].disposed = 1
                   /\ fps' = FpsOf(latency')
                   /\ poses' # <<>>
                   /\ rafQueue' = rafQueue
                   /\ nextRafId' = nextRafId
                   /\ rafId' = Cancelled]_vars
    /\ [](\A s \in Loops : loopState[s] = "returned" => (PendingOf(s) = {} /\ QueuedOf(s) = {}))

\* an iteration that was estimating when the cleanup ran has finished
C8_Witness ==
    /\ rafId = Cancelled
    /\ loopState[1] = "returned"
    /\ trace[1] = <<"next", "estimatePoses", "setFps", "setPoses", "dispose", "return">>

\* C9: the step in which an iteration throws, and every later step, leaves
\* fps and poses unchanged; a loop that threw has no call pending and no
\* animation frame queued, and begins no further iteration.
C9_FailedIterationIsFatal ==
    [][\A s \in Loops :
            loopState'[s] = "threw"
                => /\ fps' = fps
                   /\ poses' = poses
                   /\ {e \in rafQueue' : e.loop = s} = {}
                   /\ {t \in pendingEst' : tensors'[t].loop = s} = {}
                   /\ (loopState[s] = "threw" => iter'[s] = iter[s])]_vars

\* the second iteration of a loop failed after a successful first one
C9_Witness ==
    /\ loopState[1] = "threw"
    /\ iter[1] = 2
    /\ poses # <<>>
    /\ tensors[1].status = "resolved"

\* C11: a successful iteration that measured a latency L >= 1 sets fps to
\* floor(1000 / L), the one integer f with f * L <= 1000 < (f + 1) * L, from
\* that latency alone; a latency of 50 ms gives 20.
C11_FrameRate ==
    [][\A t \in pendingEst :
            (tensors'[t].status = "resolved" /\ latency' >= 1)
                => /\ fps' * latency' <= 1000
                   /\ 1000 < (fps' + 1) * latency'
                   /\ (latency' = 50 => fps' = 20)]_vars

\* the second iteration measured 16 ms and replaced the fps of the first
C11_Witness ==
    /\ Len(tensors) = 2
    /\ tensors[2].status = "resolved"
    /\ latency = 16
    /\ fps = 62

\* position of the call e in the trace tr, 0 when it is absent
PosIn(tr, e) == IF \E i \in DOMAIN tr : tr[i] = e THEN CHOOSE i \in DOMAIN tr : tr[i] = e ELSE 0

\* number of times the call e is in the trace tr
CountIn(tr, e) == Cardinality({i \in DOMAIN tr : tr[i] = e})

\* C15: in an iteration whose estimatePoses returned, the tensor is acquired
\* before estimatePoses is invoked, fps and poses are recorded after it, the
\* tensor is disposed after both and before the iteration returns on
\* cancellation or presents; updatePreview precedes gl.endFrameEXP, both
\* follow the disposal, and requestAnimationFrame comes last.
C15_StepOrder ==
    \A s \in Loops :
        LET tr == trace[s]
            P(e) == PosIn(tr, e)
        IN  (P("setFps") > 0 \/ P("setPoses") > 0 \/ P("dispose") > 0) =>
                /\ \A e \in {"next", "estimatePoses", "setFps", "setPoses", "dispose"} : CountIn(tr, e) = 1
                /\ P("next") < P("estimatePoses")
                /\ P("estimatePoses") < P("setFps")
                /\ P("estimatePoses") < P("setPoses")
                /\ P("setFps") < P("dispose")
                /\ P("setPoses") < P("dispose")
                /\ IF P("return") > 0
                   THEN /\ P("dispose") < P("return")
                        /\ \A e \in {"updatePreview", "endFrameEXP", "requestAnimationFrame"} : CountIn(tr, e) = 0
                   ELSE /\ \A e \in {"updatePreview", "endFrameEXP", "requestAnimationFrame"} : CountIn(tr, e) = 1
                        /\ P("dispose") < P("updatePreview")
                        /\ P("updatePreview") < P("endFrameEXP")
                        /\ P("endFrameEXP") < P("requestAnimationFrame")
                        /\ P("requestAnimationFrame") = Len(tr)

\* an iteration ran to its end and requested the next animation frame
C15_Witness ==
    trace[1] = <<"next", "estimatePoses", "setFps", "setPoses", "dispose", "updatePreview", "endFrameEXP", "requestAnimationFrame">>

\* C16: in the cooperative environment a started loop always has exactly one
\* estimatePoses call pending or one animation frame queued, every iteration
\* that completes queues exactly one new animation frame, and the loop goes
\* on to begin every iteration the bound allows.
C16_LoopProgress ==
    /\ [](\A s \in Loops :
            loopState[s] = "running" => Cardinality(PendingOf(s)) + Cardinality(QueuedOf(s)) = 1)
    /\ [][\A t \in pendingEst :
            tensors'[t].status = "resolved"
                => /\ rafQueue \subseteq rafQueue'
                   /\ Cardinality(rafQueue' \ rafQueue) = 1
                   /\ \A e \in rafQueue' \ rafQueue : e.loop = tensors[t].loop]_vars
    /\ \A s \in Loops : (loopState[s] = "running") ~> (iter[s] = MaxIters /\ QueuedOf(s) # {})

\* the loop has run every iteration the bound allows and has the next one
\* scheduled
C16_Witness ==
    /\ mounted
    /\ loopState[1] = "running"
    /\ iter[1] = MaxIters
    /\ QueuedOf(1) # {}
    /\ \A t \in Tensors : tensors[t].status = "resolved"

\* C18: once the camera stream has been delivered and the model created, a
\* loop that has nothing pending and nothing scheduled has invoked
\* estimatePoses and updated poses.
C18_EstimationRuns ==
    (nLoops = 1 /\ model = Detector /\ pendingEst = {} /\ rafQueue = {})
        => (poses # <<>> /\ \E t \in Tensors : tensors[t].status = "resolved")

\* C17: once rafId.current is 0 no step writes another value to it, and no
\* step calls requestAnimationFrame (no frame id is handed out, no callback
\* is queued) while it is 0.
C17_CancelledIsAbsorbing ==
    [][rafId = Cancelled
        => /\ rafId' = Cancelled
           /\ nextRafId' = nextRafId
           /\ rafQueue' \subseteq rafQueue]_vars

\* after the cleanup wrote 0, an iteration ended and the handle is still 0
C17_Witness ==
    /\ ~mounted
    /\ rafId = Cancelled
    /\ rafQueue = {}
    /\ \E t \in Tensors : tensors[t].afterUnmount = FALSE /\ tensors[t].status = "resolved" /\ loopState[tensors[t].loop] = "returned"

\* C19: however often the camera-ready callback is delivered, at most one
\* loop is running on the shared rafId and at most one estimatePoses call is
\* pending over all loops.
C19_SingleLoop ==
    /\ Cardinality({s \in Loops : loopState[s] = "running"}) <= 1
    /\ Cardinality(pendingEst) <= 1

\* ---- properties of renderPose ---------------------------------------------
\* number of rendered circles whose key is that of the keypoint named n
CirclesNamed(r, n) == Cardinality({i \in DOMAIN r.circles : r.circles[i].key = "skeletonkp_" \o n})

\* the first pose has a keypoint named n whose score is present and > 0.3
FirstPoseShows(n) ==
    /\ poses # <<>>
    /\ Len(poses[1]) > 0
    /\ \E i \in DOMAIN poses[1][1].keypoints :
            LET k == poses[1][1].keypoints[i]
            IN  k.name = n /\ "score" \in DOMAIN k /\ k.score > 30

\* C10: a keypoint of the first pose is rendered as exactly one circle when
\* its score is above 0.3 and as none when it is at most 0.3 or absent;
\* keypoints of the other poses are not rendered.
C10_KeypointFilter ==
    rendered # <<>> =>
        \A j \in DOMAIN KeypointNames :
            CirclesNamed(rendered[1], KeypointNames[j]) = IF FirstPoseShows(KeypointNames[j]) THEN 1 ELSE 0

\* two poses: the first has one keypoint at 0.25 and one above the threshold,
\* and exactly the latter is drawn
C10_Witness ==
    /\ rendered # <<>>
    /\ poses # <<>>
    /\ Len(poses[1]) = 2
    /\ Len(poses[1][1].keypoints) = 2
    /\ Score(poses[1][1].keypoints[1]) = 25
    /\ Score(poses[1][1].keypoints[2]) = 31
    /\ Len(rendered[1].circles) = 1
    /\ rendered[1].circles[1].key = "skeletonkp_left_eye"

\* the keypoints of the first pose whose score is present and above 0.3
ShownKeypoints ==
    IF poses # <<>> /\ Len(poses[1]) > 0
    THEN SelectSeq(poses[1][1].keypoints, LAMBDA k : "score" \in DOMAIN k /\ k.score > 30)
    ELSE <<>>

\* the orientation is one of the two portrait values
PortraitNow == orientation \in {"PORTRAIT_UP", "PORTRAIT_DOWN"}

\* the i-th circle is at cx = (x' / outW) * basisW, cy = (y / outH) * basisH,
\* x' mirrored exactly on Android or with the rear camera, the basis
\* exchanged outside portrait
TransformedAsReference ==
    LET outW == rendered[2].resizeWidth
        outH == rendered[2].resizeHeight
        basisW == IF PortraitNow THEN CAM_PREVIEW_WIDTH ELSE CAM_PREVIEW_HEIGHT
        basisH == IF PortraitNow THEN CAM_PREVIEW_HEIGHT ELSE CAM_PREVIEW_WIDTH
        mirrored == platform = "android" \/ cameraType = "back"
    IN  /\ Len(rendered[1].circles) = Len(ShownKeypoints)
        /\ \A i \in DOMAIN ShownKeypoints :
              LET k == ShownKeypoints[i]
                  c == rendered[1].circles[i]
                  xm == IF mirrored THEN outW - k.x ELSE k.x
              IN  /\ c.cx.num * outW = xm * basisW * c.cx.den
                  /\ c.cy.num * outH = k.y * basisH * c.cy.den

\* on Android, portrait-up, front camera, with an output tensor of 180 by h,
\* a keypoint at x = 90 is drawn at half the preview width
ScenarioCentered(h) ==
    (platform = "android" /\ orientation = "PORTRAIT_UP" /\ cameraType = "front")
        => /\ rendered[2].resizeWidth = 180
           /\ rendered[2].resizeHeight = h
           /\ \A i \in DOMAIN ShownKeypoints :
                 ShownKeypoints[i].x = 90
                     => 2 * rendered[1].circles[i].cx.num = CAM_PREVIEW_WIDTH * rendered[1].circles[i].cx.den

C13_OrientationAndTranspose ==
    rendered # <<>> =>
        LET c == rendered[2]
            exchanged == c.resizeWidth = OUTPUT_TENSOR_HEIGHT /\ c.resizeHeight = OUTPUT_TENSOR_WIDTH
            straight == c.resizeWidth = OUTPUT_TENSOR_WIDTH /\ c.resizeHeight = OUTPUT_TENSOR_HEIGHT
        IN  /\ c.portrait <=> orientation \in {"PORTRAIT_UP", "PORTRAIT_DOWN"}
            /\ (platform = "ios" /\ orientation \in {"LANDSCAPE_LEFT", "LANDSCAPE_RIGHT"}) => exchanged
            /\ platform = "android" => straight
            /\ (platform = "ios" /\ orientation \in {"PORTRAIT_UP", "PORTRAIT_DOWN"}) => straight

\* iOS in landscape: the camera is asked for a 320 by 180 tensor
C13_Witness ==
    /\ rendered # <<>>
    /\ platform = "ios"
    /\ orientation = "LANDSCAPE_LEFT"
    /\ ~rendered[2].portrait
    /\ rendered[2].resizeWidth = 320
    /\ rendered[2].resizeHeight = 180

====
